---- MODULE Spec2Model ----
(***************************************************************************)
(* The two-pass Reddit cohort tracker of src/reddit: collect_data.py       *)
(* (Pass 1: author lookups through user_info_cache, per-post records, the  *)
(* cohort of a subreddit) and collect_data_2.py (Pass 2: the batched       *)
(* status re-check and the join with the Pass 1 table).                    *)
(***************************************************************************)
EXTENDS Integers, Sequences, FiniteSets, TLC

VARIABLES
    user_info_cache,  \* collect_data.py:10, username -> Author Snapshot
    fetches,          \* ghost: external profile fetches issued, per username
    lookups,          \* ghost: number of collect_user_info calls so far
    last,             \* ghost: what the last collect_user_info call did
    cohort,           \* position of collect_initial_cohort: idle/collecting/returned/aborted
    seen,             \* ghost: the posts the listing has yielded to the running cohort
    posts_data,       \* collect_data.py:146
    post_fullnames,   \* collect_data.py:147
    ids,              \* collect_data_2.py:20, the argument of get_final_post_status
    bi,               \* collect_data_2.py:29, the loop index i
    status_map,       \* collect_data_2.py:27
    log,              \* ghost: one entry per bulk-info call of get_final_post_status
    pc2,              \* position of Pass 2 on one subreddit: batch/returned/joined
    df,               \* collect_data_2.py:109, the Pass 1 table that was loaded
    final_df,         \* collect_data_2.py:117
    pass1_files,      \* data/pass1/{subreddit}_*.csv, in the order of their ctime
    manifests,        \* data/cohort_ids_*.json, in the order of their ctime
    outputs,          \* the other files written: combined and complete CSVs
    m1,               \* Pass 1's main program: position, all_initial_data, cohort_ids
    m2,               \* Pass 2's main program: position, cohort_ids_by_sub, all_final_data
    picked            \* ghost: the Pass 1 file Pass 2 selected for each subreddit

pass1vars == <<user_info_cache, fetches, lookups, last, cohort, seen, posts_data, post_fullnames>>
pass2vars == <<ids, bi, status_map, log, pc2, df, final_df>>
mainvars == <<pass1_files, manifests, outputs, m1, m2, picked>>
vars == <<pass1vars, pass2vars, mainvars>>

(***************************************************************************)
(* Python values.  A nullable value is <<>> (None) or <<v>>.               *)
(***************************************************************************)
None == <<>>
Some(v) == <<v>>

SecondsPerDay == 86400

\* Bounds of the model.
MaxLookups == 3
MaxListing == 2
MaxSmall == 2
MaxIds == 201
MaxRows == 2
MaxTrack == 3

\* The batch size of get_final_post_status.
BatchSize == 100

Usernames == {"alice", "bob"}
DeletedName == "[deleted]"
ErrorName == "[error]"

\* post.author: None, or a Redditor whose str() is its name.
NoAuthor == [isNone |-> TRUE, name |-> ""]
Authors == {NoAuthor} \cup {[isNone |-> FALSE, name |-> n] : n \in Usernames \cup {DeletedName}}

\* What the lazy profile fetch of a Redditor produces on this call: the fetch
\* raises (NotFound, Forbidden, another exception) or yields the attributes in
\* attrs with these values.
AllAttrs == {"created_utc", "link_karma", "comment_karma", "is_verified"}
FullProfile == [fetch |-> "ok", attrs |-> AllAttrs, created_utc |-> Some(0),
                link_karma |-> Some(5), comment_karma |-> Some(3), is_verified |-> TRUE]
Profiles ==
    { FullProfile,
      [FullProfile EXCEPT !.attrs = AllAttrs \ {"is_verified"}],
      [FullProfile EXCEPT !.attrs = AllAttrs \ {"created_utc"}],
      [FullProfile EXCEPT !.created_utc = None],
      [FullProfile EXCEPT !.attrs = AllAttrs \ {"comment_karma"}],
      [FullProfile EXCEPT !.link_karma = None],
      [FullProfile EXCEPT !.fetch = "NotFound"],
      [FullProfile EXCEPT !.fetch = "Forbidden"],
      [FullProfile EXCEPT !.fetch = "Exception"] }

\* datetime.now(timezone.utc) as read by a call, in seconds.
NowTimes == {3 * SecondsPerDay + 100}

(***************************************************************************)
(* collect_user_info                                                       *)
(***************************************************************************)
DeletedSnapshot ==
    [username |-> DeletedName, account_age_days |-> None, link_karma |-> None,
     comment_karma |-> None, total_karma |-> None, is_verified |-> None,
     author_unavailable |-> TRUE]

\* A slip in the failure snapshot: the total is 0 instead of None.
UnavailableSnapshot_ZeroTotal(username) ==
    [DeletedSnapshot EXCEPT !.username = IF username # "" THEN username ELSE ErrorName,
                            !.total_karma = Some(0)]

\* The snapshot cached by the (NotFound, Forbidden, AttributeError) handler.
UnavailableSnapshot(username) ==
    [DeletedSnapshot EXCEPT !.username = IF username # "" THEN username ELSE ErrorName]

\* The snapshot cached by the generic Exception handler.
ErrorSnapshot ==
    [DeletedSnapshot EXCEPT !.username = ErrorName]

\* (now - fromtimestamp(created_utc)).days
AccountAgeDays(now, created_utc) == (now - created_utc) \div SecondsPerDay

\* The exception the try block raises on a cache miss, in evaluation order:
\* "unavailable" for NotFound / Forbidden / AttributeError, "other" for any
\* other exception, "none" when user_data is built.
LookupException(profile) ==
    IF profile.fetch \in {"NotFound", "Forbidden"} THEN "unavailable"
    ELSE IF profile.fetch # "ok" THEN "other"
    ELSE IF "created_utc" \notin profile.attrs \/ profile.created_utc = None THEN "unavailable"
    ELSE IF "link_karma" \notin profile.attrs THEN "unavailable"
    ELSE IF "comment_karma" \notin profile.attrs THEN "unavailable"
    ELSE IF profile.link_karma = None \/ profile.comment_karma = None THEN "other"
    ELSE "none"

UserData(username, profile, now) ==
    [username |-> username,
     account_age_days |-> Some(AccountAgeDays(now, profile.created_utc[1])),
     link_karma |-> profile.link_karma,
     comment_karma |-> profile.comment_karma,
     total_karma |-> Some(profile.link_karma[1] + profile.comment_karma[1]),
     is_verified |-> IF "is_verified" \in profile.attrs THEN Some(profile.is_verified) ELSE Some(FALSE),
     author_unavailable |-> FALSE]

\* The outcome of one call: the value returned (ret), the cache afterwards,
\* whether the external fetch was issued, whether time.sleep(0.6) ran, whether
\* the cache answered, and whether an exception reached the caller.
Outcome(ret, cache, fetched, slept, hit) ==
    [ret |-> ret, cache |-> cache, fetched |-> fetched, slept |-> slept, hit |-> hit,
     raised |-> FALSE]

\* A slip: the handlers return the failure snapshot without caching it.
FetchAndCache_FailuresNotCached(username, profile, now, cache) ==
    LET exc == LookupException(profile)
        snap == CASE exc = "none" -> UserData(username, profile, now)
                  [] exc = "unavailable" -> UnavailableSnapshot(username)
                  [] OTHER -> ErrorSnapshot
    IN  Outcome(snap, IF exc = "none" THEN (username :> snap) @@ cache ELSE cache,
                TRUE, exc = "none", FALSE)

\* A slip: no generic handler, so an exception other than NotFound, Forbidden
\* and AttributeError reaches the caller.
FetchAndCache_NoGenericHandler(username, profile, now, cache) ==
    LET exc == LookupException(profile)
        snap == CASE exc = "none" -> UserData(username, profile, now)
                  [] exc = "unavailable" -> UnavailableSnapshot(username)
                  [] OTHER -> ErrorSnapshot
    IN  IF exc = "other"
        THEN [Outcome(snap, cache, TRUE, FALSE, FALSE) EXCEPT !.raised = TRUE]
        ELSE Outcome(snap, (username :> snap) @@ cache, TRUE, exc = "none", FALSE)

\* A cache miss: the profile is fetched, then cached as data or as a failure.
FetchAndCache(username, profile, now, cache) ==
    LET exc == LookupException(profile)
        snap == CASE exc = "none" -> UserData(username, profile, now)
                  [] exc = "unavailable" -> UnavailableSnapshot(username)
                  [] OTHER -> ErrorSnapshot
    IN  Outcome(snap, (username :> snap) @@ cache, TRUE, exc = "none", FALSE)

\* A slip: a cached failure is looked up again and overwritten.
CacheLookup_RetryUnavailable(username, profile, now, cache) ==
    IF username \in DOMAIN cache /\ ~cache[username].author_unavailable
    THEN Outcome(cache[username], cache, FALSE, FALSE, TRUE)
    ELSE FetchAndCache(username, profile, now, cache)

\* A slip: the pacing delay also runs when the cache answers.
CacheLookup_DelayOnHit(username, profile, now, cache) ==
    IF username \in DOMAIN cache
    THEN Outcome(cache[username], cache, FALSE, TRUE, TRUE)
    ELSE FetchAndCache(username, profile, now, cache)

CacheLookup(username, profile, now, cache) ==
    IF username \in DOMAIN cache
    THEN Outcome(cache[username], cache, FALSE, FALSE, TRUE)
    ELSE FetchAndCache(username, profile, now, cache)

collect_user_info(author, profile, now, cache) ==
    IF author.isNone THEN Outcome(DeletedSnapshot, cache, FALSE, FALSE, FALSE)
    ELSE IF author.name = DeletedName THEN Outcome(DeletedSnapshot, cache, FALSE, FALSE, FALSE)
    ELSE CacheLookup(author.name, profile, now, cache)

\* Ghost bookkeeping of a call.
Called(author, profile, r) ==
    [author |-> author, exc |-> LookupException(profile), ret |-> r.ret, fetched |-> r.fetched,
     slept |-> r.slept, hit |-> r.hit, raised |-> r.raised]

CountFetch(author, r) ==
    IF r.fetched THEN [fetches EXCEPT ![author.name] = @ + 1] ELSE fetches

NoCall == [author |-> NoAuthor, exc |-> "none", ret |-> DeletedSnapshot,
           fetched |-> FALSE, slept |-> FALSE, hit |-> FALSE, raised |-> FALSE]

(***************************************************************************)
(* collect_post_data and collect_initial_cohort                            *)
(***************************************************************************)
\* Post identifiers: k stands for the fullname "t3_k".
Fullnames == {1, 2}
AllFullnames == 1..3
PostCreatedTimes == {SecondsPerDay}

\* A post yielded by subreddit.new(): broken is TRUE when reading one of its
\* attributes raises while the record is being built.
Posts == [fullname : Fullnames, author : Authors, created_utc : PostCreatedTimes,
          broken : BOOLEAN]

\* A slip: the difference is taken the other way round.
PostRecord_AgeReversed(post, captured, info) ==
    [post_fullname |-> post.fullname,
     created_utc |-> post.created_utc,
     captured_at_utc |-> captured,
     post_age_seconds_at_capture |-> post.created_utc - captured,
     author_username |-> info.username,
     author_account_age_days |-> info.account_age_days,
     author_total_karma |-> info.total_karma,
     author_link_karma |-> info.link_karma,
     author_comment_karma |-> info.comment_karma,
     author_is_verified |-> info.is_verified,
     author_unavailable |-> info.author_unavailable]

\* The record collect_post_data returns (the columns the model follows).
PostRecord(post, captured, info) ==
    [post_fullname |-> post.fullname,
     created_utc |-> post.created_utc,
     captured_at_utc |-> captured,
     post_age_seconds_at_capture |-> captured - post.created_utc,
     author_username |-> info.username,
     author_account_age_days |-> info.account_age_days,
     author_total_karma |-> info.total_karma,
     author_link_karma |-> info.link_karma,
     author_comment_karma |-> info.comment_karma,
     author_is_verified |-> info.is_verified,
     author_unavailable |-> info.author_unavailable]

\* A slip: no try/except around the record construction.
collect_post_data_NoExcept(post, profile, now, captured, cache) ==
    LET r == collect_user_info(post.author, profile, now, cache) IN
    [call |-> r,
     data |-> IF post.broken \/ r.raised THEN None ELSE Some(PostRecord(post, captured, r.ret)),
     raised |-> post.broken \/ r.raised]

\* collect_post_data: the author is looked up first, so the cache keeps what
\* the lookup stored also when the record then fails.  Any exception of the
\* try block is caught and None (<<>>) is returned.
collect_post_data(post, profile, now, captured, cache) ==
    LET r == collect_user_info(post.author, profile, now, cache) IN
    [call |-> r,
     data |-> IF post.broken \/ r.raised THEN None ELSE Some(PostRecord(post, captured, r.ret)),
     raised |-> FALSE]

\* One iteration of the loop of collect_initial_cohort on what
\* collect_post_data did: the position after it and the two lists.  An
\* exception leaving collect_post_data would leave the loop too.
LoopStep(d, data, names) ==
    IF d.raised
    THEN [cohort |-> "aborted", posts_data |-> data, post_fullnames |-> names]
    ELSE IF d.data # None
    THEN [cohort |-> "collecting", posts_data |-> Append(data, d.data[1]),
          post_fullnames |-> Append(names, d.data[1].post_fullname)]
    ELSE [cohort |-> "collecting", posts_data |-> data, post_fullnames |-> names]

\* The main programs before they start.
IdleMain1 == [pc |-> "idle", run |-> 0, s |-> 1, all_initial_data |-> <<>>, cohort_ids |-> <<>>]
IdleMain2 == [pc |-> "idle", run |-> 0, s |-> 1, cohort_ids |-> <<>>, all_final_data |-> <<>>]

(***************************************************************************)
(* State machine of Pass 1's capture                                       *)
(***************************************************************************)
Init ==
    /\ user_info_cache = <<>>
    /\ fetches = [u \in Usernames |-> 0]
    /\ lookups = 0
    /\ last = NoCall
    /\ cohort = "idle"
    /\ seen = <<>>
    /\ posts_data = <<>>
    /\ post_fullnames = <<>>
    /\ ids = <<>>
    /\ bi = 0
    /\ status_map = <<>>
    /\ log = <<>>
    /\ pc2 = "idle"
    /\ df = <<>>
    /\ final_df = <<>>
    /\ pass1_files = <<>>
    /\ manifests = <<>>
    /\ outputs = <<>>
    /\ m1 = IdleMain1
    /\ m2 = IdleMain2
    /\ picked = <<>>

\* collect_initial_cohort is entered: the two lists are created empty.
StartCohort ==
    /\ cohort = "idle"
    /\ cohort' = "collecting"
    /\ seen' = <<>>
    /\ posts_data' = <<>>
    /\ post_fullnames' = <<>>
    /\ UNCHANGED <<user_info_cache, fetches, lookups, last, pass2vars, mainvars>>

\* The listing yields a post of S and the loop body runs on it; the listing
\* yields at most limit posts.
ProcessPostFrom(S, limit) ==
    /\ cohort = "collecting"
    /\ Len(seen) < limit
    /\ \E post \in S, profile \in Profiles, now \in NowTimes, captured \in NowTimes :
         /\ now <= captured
         /\ LET d == collect_post_data(post, profile, now, captured, user_info_cache)
                s == LoopStep(d, posts_data, post_fullnames)
            IN  /\ user_info_cache' = d.call.cache
                /\ fetches' = CountFetch(post.author, d.call)
                /\ last' = Called(post.author, profile, d.call)
                /\ seen' = Append(seen, [fullname |-> post.fullname, built |-> ~post.broken])
                /\ cohort' = s.cohort
                /\ posts_data' = s.posts_data
                /\ post_fullnames' = s.post_fullnames
    /\ UNCHANGED <<lookups, pass2vars>>

ProcessPost ==
    /\ ProcessPostFrom(Posts, MaxListing)
    /\ UNCHANGED mainvars

\* The listing call itself raises: the exception leaves collect_initial_cohort.
ListingFails ==
    /\ cohort = "collecting"
    /\ cohort' = "aborted"
    /\ UNCHANGED <<user_info_cache, fetches, lookups, last, seen, posts_data, post_fullnames, pass2vars, mainvars>>

\* The listing is exhausted: pd.DataFrame(posts_data), post_fullnames are returned.
ReturnCohort ==
    /\ cohort = "collecting"
    /\ cohort' = "returned"
    /\ UNCHANGED <<user_info_cache, fetches, lookups, last, seen, posts_data, post_fullnames, pass2vars, mainvars>>

Next ==
    \/ StartCohort
    \/ ProcessPost
    \/ ListingFails
    \/ ReturnCohort

\* One run of collect_initial_cohort on an arbitrary listing.
Spec == Init /\ [][Next]_vars

(***************************************************************************)
(* Arbitrary sequences of calls of collect_user_info and collect_post_data *)
(***************************************************************************)
\* A direct call of collect_user_info.
LookupAuthor ==
    /\ lookups < MaxLookups
    /\ \E author \in Authors, profile \in Profiles, now \in NowTimes :
         LET r == collect_user_info(author, profile, now, user_info_cache) IN
         /\ user_info_cache' = r.cache
         /\ fetches' = CountFetch(author, r)
         /\ last' = Called(author, profile, r)
    /\ lookups' = lookups + 1
    /\ UNCHANGED <<cohort, seen, posts_data, post_fullnames, pass2vars, mainvars>>

\* A direct call of collect_post_data; its record is not kept.
CapturePost ==
    /\ lookups < MaxLookups
    /\ \E post \in Posts, profile \in Profiles, now \in NowTimes, captured \in NowTimes :
         /\ now <= captured
         /\ LET d == collect_post_data(post, profile, now, captured, user_info_cache) IN
            /\ user_info_cache' = d.call.cache
            /\ fetches' = CountFetch(post.author, d.call)
            /\ last' = Called(post.author, profile, d.call)
    /\ lookups' = lookups + 1
    /\ UNCHANGED <<cohort, seen, posts_data, post_fullnames, pass2vars, mainvars>>

NextLookups ==
    \/ LookupAuthor
    \/ CapturePost

SpecLookups == Init /\ [][NextLookups]_vars

(***************************************************************************)
(* Properties of the User-Info Cache                                       *)
(***************************************************************************)
Range(f) == {f[x] : x \in DOMAIN f}

AllNull(s) ==
    /\ s.account_age_days = None
    /\ s.link_karma = None
    /\ s.comment_karma = None
    /\ s.total_karma = None

\* C1: the external profile fetch is issued at most once per username; a
\* lookup of a username already in user_info_cache (available or not) returns
\* the cached snapshot and issues no fetch.
C1_FetchAtMostOncePerUsername ==
    /\ \A u \in Usernames : fetches[u] <= 1
    /\ \A u \in Usernames : (u \in DOMAIN user_info_cache) <=> (fetches[u] = 1)
    /\ last.hit => /\ ~last.fetched
                   /\ last.ret = user_info_cache[last.author.name]

\* A username whose lookup failed was looked up again and answered from the cache.
C1_Witness ==
    /\ last.hit
    /\ last.ret.author_unavailable
    /\ fetches[last.author.name] = 1

\* C5: collect_user_info never raises; a null author, a '[deleted]' username
\* and a lookup that ends in any exception return an unavailable snapshot
\* with age and karma fields null.
C5_NeverRaisesUnavailableOnFailure ==
    /\ ~last.raised
    /\ (last.author.isNone \/ last.author.name = DeletedName
          \/ (last.fetched /\ last.exc # "none"))
       => (last.ret.author_unavailable /\ AllNull(last.ret))

\* A lookup ended in an exception other than NotFound / Forbidden / AttributeError.
C5_Witness ==
    /\ last.fetched
    /\ last.exc = "other"
    /\ last.ret.author_unavailable

\* C6: every snapshot returned or cached is unavailable iff its age and karma
\* fields are all null.
C6_UnavailableIffAllNull ==
    \A s \in Range(user_info_cache) \cup {last.ret} :
        s.author_unavailable <=> AllNull(s)

\* The cache holds an available and an unavailable snapshot.
C6_Witness ==
    \E u, v \in DOMAIN user_info_cache :
        /\ ~user_info_cache[u].author_unavailable
        /\ user_info_cache[v].author_unavailable
        /\ user_info_cache[v].username = v

\* C7: a key of user_info_cache stays a key, mapped to the same snapshot.
C7_CacheNeverEvicts ==
    [][\A u \in DOMAIN user_info_cache :
          /\ u \in DOMAIN user_info_cache'
          /\ user_info_cache'[u] = user_info_cache[u]]_vars

\* Both usernames are cached, one as a failure, and a later call hit the cache.
C7_Witness ==
    /\ DOMAIN user_info_cache = Usernames
    /\ \E u \in Usernames : user_info_cache[u].author_unavailable
    /\ last.hit
    /\ lookups = MaxLookups

(***************************************************************************)
(* Properties of collect_initial_cohort                                    *)
(***************************************************************************)
BuiltNames(s) ==
    LET built == SelectSeq(s, LAMBDA e : e.built)
    IN  [k \in 1..Len(built) |-> built[k].fullname]

\* C8: a post whose record construction fails is skipped and nothing else:
\* the loop stays in progress with its lists unchanged, and the posts yielded
\* after it are still recorded.
C8_FailedPostOnlySkipped ==
    /\ [](cohort \in {"collecting", "returned"} => post_fullnames = BuiltNames(seen))
    /\ [][(seen' # seen /\ ~seen'[Len(seen')].built)
            => /\ cohort' = "collecting"
               /\ posts_data' = posts_data
               /\ post_fullnames' = post_fullnames]_vars

\* A post failed, and the post yielded after it was recorded.
C8_Witness ==
    /\ Len(seen) = 2
    /\ ~seen[1].built
    /\ seen[2].built
    /\ cohort = "returned"
    /\ Len(posts_data) = 1
    /\ posts_data[1].post_fullname = seen[2].fullname

(***************************************************************************)
(* Pass 2: get_final_post_status                                           *)
(***************************************************************************)
Min(a, b) == IF a <= b THEN a ELSE b
Max(a, b) == IF a >= b THEN a ELSE b

\* post_fullnames[i:i+100]
BatchIds(list, i) == SubSeq(list, i + 1, Min(i + BatchSize, Len(list)))

\* A post as reddit.info yields it: selftext and author are None or a value,
\* is_robot_indexable is read only when has_indexable.
LivePost(k) ==
    [fullname |-> k, selftext |-> Some("text"), title |-> "title",
     removed_by_category |-> None, author |-> Some("alice"),
     has_indexable |-> TRUE, is_robot_indexable |-> TRUE,
     score |-> 10, num_comments |-> 2, upvote_ratio |-> 90,
     locked |-> FALSE, archived |-> FALSE]
RemovedPost(k) ==
    [LivePost(k) EXCEPT !.removed_by_category = Some("moderator"),
                        !.selftext = Some("[removed]"), !.is_robot_indexable = FALSE,
                        !.locked = TRUE]
DeletedPost(k) ==
    [LivePost(k) EXCEPT !.author = None, !.selftext = Some("[deleted]")]

PostKinds == {"live", "removed", "deleted"}
InfoPost(k, kind) ==
    CASE kind = "live" -> LivePost(k)
      [] kind = "removed" -> RemovedPost(k)
      [] OTHER -> DeletedPost(k)

\* datetime.now(timezone.utc) of the re-check.
RecheckTime == 5 * SecondsPerDay

\* A slip: the official removal is left out of the inferred one.
StatusRecord_InferredFromContent(post) ==
    LET body == post.selftext
        is_removed_official == post.removed_by_category # None
        is_removed_content == (body = Some("[removed]")) \/ (post.title = "[removed]")
        is_deleted_content == (body = Some("[deleted]"))
        is_deleted_author == post.author = None \/ post.author = Some(DeletedName)
        is_deleted == is_deleted_author \/ is_deleted_content
        is_removed_inferred ==
            \/ is_removed_content
            \/ (post.has_indexable /\ post.is_robot_indexable = FALSE)
    IN  [final_score |-> post.score,
         final_num_comments |-> post.num_comments,
         final_upvote_ratio |-> post.upvote_ratio,
         is_removed_official |-> is_removed_official,
         is_removed_content |-> is_removed_content,
         is_removed_inferred |-> is_removed_inferred,
         removed_by_category |-> post.removed_by_category,
         is_deleted |-> is_deleted,
         is_deleted_author |-> is_deleted_author,
         is_deleted_content |-> is_deleted_content,
         is_locked |-> post.locked,
         is_archived |-> post.archived,
         rechecked_at_utc |-> RecheckTime]

\* A slip: a post that does not expose is_robot_indexable counts as not
\* indexable.
StatusRecord_FlagUnguarded(post) ==
    LET body == post.selftext
        is_removed_official == post.removed_by_category # None
        is_removed_content == (body = Some("[removed]")) \/ (post.title = "[removed]")
        is_deleted_content == (body = Some("[deleted]"))
        is_deleted_author == post.author = None \/ post.author = Some(DeletedName)
        is_deleted == is_deleted_author \/ is_deleted_content
        is_removed_inferred ==
            \/ is_removed_official
            \/ is_removed_content
            \/ ~post.has_indexable
            \/ post.is_robot_indexable = FALSE
    IN  [final_score |-> post.score,
         final_num_comments |-> post.num_comments,
         final_upvote_ratio |-> post.upvote_ratio,
         is_removed_official |-> is_removed_official,
         is_removed_content |-> is_removed_content,
         is_removed_inferred |-> is_removed_inferred,
         removed_by_category |-> post.removed_by_category,
         is_deleted |-> is_deleted,
         is_deleted_author |-> is_deleted_author,
         is_deleted_content |-> is_deleted_content,
         is_locked |-> post.locked,
         is_archived |-> post.archived,
         rechecked_at_utc |-> RecheckTime]

\* The Status Record stored for a post.
StatusRecord(post) ==
    LET body == post.selftext
        is_removed_official == post.removed_by_category # None
        is_removed_content == (body = Some("[removed]")) \/ (post.title = "[removed]")
        is_deleted_content == (body = Some("[deleted]"))
        is_deleted_author == post.author = None \/ post.author = Some(DeletedName)
        is_deleted == is_deleted_author \/ is_deleted_content
        is_removed_inferred ==
            \/ is_removed_official
            \/ is_removed_content
            \/ (post.has_indexable /\ post.is_robot_indexable = FALSE)
    IN  [final_score |-> post.score,
         final_num_comments |-> post.num_comments,
         final_upvote_ratio |-> post.upvote_ratio,
         is_removed_official |-> is_removed_official,
         is_removed_content |-> is_removed_content,
         is_removed_inferred |-> is_removed_inferred,
         removed_by_category |-> post.removed_by_category,
         is_deleted |-> is_deleted,
         is_deleted_author |-> is_deleted_author,
         is_deleted_content |-> is_deleted_content,
         is_locked |-> post.locked,
         is_archived |-> post.archived,
         rechecked_at_utc |-> RecheckTime]

\* The inner loop over the first n posts the bulk call yields: each one is
\* stored under its fullname as soon as its record is computed.
RECURSIVE StoreResults(_, _, _)
StoreResults(map, posts, n) ==
    IF n = 0 THEN map
    ELSE (posts[n].fullname :> StatusRecord(posts[n])) @@ StoreResults(map, posts, n - 1)

\* A slip in the comparison: the delay also follows a last batch that is full.
PacingDelay_OffByOne(i, n, failed) == ~failed /\ i + BatchSize <= n

\* if i + 100 < len(post_fullnames): time.sleep(2), inside the try block
\* after the inner loop, so only when no exception was raised.
PacingDelay(i, n, failed) == ~failed /\ i + BatchSize < n

\* A slip: the try block around the loop instead of inside it, so that an
\* exception ends the loop.
AfterBatch_StopOnFailure(i, n, failed) == IF failed THEN Max(n, i + BatchSize) ELSE i + BatchSize

\* The next value of i in range(0, len(post_fullnames), 100): the except
\* clause is inside the loop body, so the loop goes on after a failure.
AfterBatch(i, n, failed) == i + BatchSize

\* The identifier lists the model runs on: every list of at most MaxSmall
\* identifiers (repetitions included), and 1..n for every n up to MaxIds.
SmallLists == UNION {[1..n -> AllFullnames] : n \in 0..MaxSmall}
IdLists == SmallLists \cup {[k \in 1..n |-> k] : n \in 0..MaxIds}

\* The k-th smallest element of a set of numbers.
Nth(S, k) == CHOOSE x \in S : Cardinality({y \in S : y <= x}) = k

\* What a bulk call on a batch yields.  A short batch: any of its posts may be
\* missing and each one present is live, removed or deleted.  A long batch:
\* all its posts, none, or all but the first, live.
Responses(batch) ==
    IF Len(batch) <= MaxSmall
    THEN UNION {{[j \in 1..Cardinality(m) |-> InfoPost(batch[Nth(m, j)], kf[Nth(m, j)])]
                    : kf \in [m -> PostKinds]} : m \in SUBSET (1..Len(batch))}
    ELSE {[j \in 1..Len(batch) |-> LivePost(batch[j])],
          <<>>,
          [j \in 1..(Len(batch) - 1) |-> LivePost(batch[j + 1])]}

\* Where the batch raises: nowhere (None), or after k posts were processed,
\* k = 0 being a failure of the call itself.
Fails(posts) ==
    {None} \cup {Some(k) : k \in 0..Min(Max(Len(posts) - 1, 0), MaxSmall)}

(***************************************************************************)
(* Pass 2: the join of the Pass 1 table with the status mapping            *)
(***************************************************************************)
StatusColumns ==
    {"final_score", "final_num_comments", "final_upvote_ratio", "is_removed_official",
     "is_removed_content", "is_removed_inferred", "removed_by_category", "is_deleted",
     "is_deleted_author", "is_deleted_content", "is_locked", "is_archived",
     "rechecked_at_utc"}

\* pd.DataFrame.from_dict(status_data, orient='index'): the columns are the
\* keys of the records, so an empty mapping gives a frame with no columns.
StatusFrameColumns(map) == IF DOMAIN map = {} THEN {} ELSE StatusColumns

\* The cells of a status row: a null value is None, any other value v is <<v>>.
StatusCells(rec) ==
    [c \in StatusColumns |-> IF c = "removed_by_category" THEN rec[c] ELSE Some(rec[c])]

\* A slip: the rows without a status are filled with False, not with nulls.
JoinRow_FillFalse(row, map) ==
    IF row.post_fullname \in DOMAIN map
    THEN StatusCells(map[row.post_fullname]) @@ row
    ELSE [c \in StatusFrameColumns(map) |-> Some(FALSE)] @@ row

\* One row of df.set_index('post_fullname').join(status_df): the left row,
\* extended by the matching status row or by nulls in status_df's columns.
JoinRow(row, map) ==
    IF row.post_fullname \in DOMAIN map
    THEN StatusCells(map[row.post_fullname]) @@ row
    ELSE [c \in StatusFrameColumns(map) |-> None] @@ row

\* A slip: an inner join, which drops the rows without a status.
Join_Inner(table, map) ==
    LET kept == SelectSeq(table, LAMBDA row : row.post_fullname \in DOMAIN map)
    IN  [j \in 1..Len(kept) |-> JoinRow(kept[j], map)]

Join(table, map) == [j \in 1..Len(table) |-> JoinRow(table[j], map)]

\* A row of a Pass 1 table, for the post k.
Pass1Row(k) ==
    PostRecord([fullname |-> k, author |-> NoAuthor, created_utc |-> SecondsPerDay,
                broken |-> FALSE],
               CHOOSE t \in NowTimes : TRUE, DeletedSnapshot)
Pass1Columns == DOMAIN Pass1Row(1)

\* The Pass 1 tables the join is run on: Pass 1 writes no empty table.
Tables == UNION {[1..n -> {Pass1Row(k) : k \in AllFullnames}] : n \in 1..MaxRows}

(***************************************************************************)
(* State machine of Pass 2 on one subreddit                                *)
(***************************************************************************)
InitRecheck ==
    /\ user_info_cache = <<>>
    /\ fetches = [u \in Usernames |-> 0]
    /\ lookups = 0
    /\ last = NoCall
    /\ cohort = "idle"
    /\ seen = <<>>
    /\ posts_data = <<>>
    /\ post_fullnames = <<>>
    /\ ids \in IdLists
    /\ bi = 0
    /\ status_map = <<>>
    /\ log = <<>>
    /\ pc2 = "batch"
    /\ df = <<>>
    /\ final_df = <<>>
    /\ pass1_files = <<>>
    /\ manifests = <<>>
    /\ outputs = <<>>
    /\ m1 = IdleMain1
    /\ m2 = IdleMain2
    /\ picked = <<>>

\* One iteration of the loop over the batches, on the posts the bulk call
\* yields: the inner loop up to the exception if there is one, and the
\* pacing delay.
RecheckBatchWith(posts) ==
    /\ pc2 = "batch"
    /\ bi < Len(ids)
    /\ \E fail \in Fails(posts) :
         LET failed == fail # None
             n == IF failed THEN fail[1] ELSE Len(posts)
         IN  /\ status_map' = StoreResults(status_map, posts, n)
             /\ log' = Append(log, [start |-> bi, failed |-> failed,
                                    stored |-> {posts[j].fullname : j \in 1..n},
                                    slept |-> PacingDelay(bi, Len(ids), failed)])
             /\ bi' = AfterBatch(bi, Len(ids), failed)
    /\ UNCHANGED <<pass1vars, ids, pc2, df, final_df, mainvars>>

\* One iteration of the loop over the batches, for any response.
RecheckBatch ==
    /\ bi < Len(ids)
    /\ \E posts \in Responses(BatchIds(ids, bi)) : RecheckBatchWith(posts)

\* range(0, len(post_fullnames), 100) is exhausted: status_map is returned.
ReturnStatus ==
    /\ pc2 = "batch"
    /\ bi >= Len(ids)
    /\ pc2' = "returned"
    /\ UNCHANGED <<pass1vars, ids, bi, status_map, log, df, final_df, mainvars>>

\* Lines 113-118 on the loaded table.  The loop of the main program skips a
\* subreddit whose identifier list is empty, so a join follows a re-check of
\* a non-empty list only.
JoinWith(table) ==
    /\ pc2 = "returned"
    /\ ids # <<>>
    /\ df' = table
    /\ final_df' = Join(table, status_map)
    /\ pc2' = "joined"
    /\ UNCHANGED <<pass1vars, ids, bi, status_map, log>>

\* The join, for any Pass 1 table that may have been loaded.
JoinStatus ==
    /\ \E table \in Tables : JoinWith(table)
    /\ UNCHANGED mainvars

NextRecheck ==
    \/ RecheckBatch
    \/ ReturnStatus
    \/ JoinStatus

SpecRecheck == InitRecheck /\ [][NextRecheck]_vars

(***************************************************************************)
(* Properties of get_final_post_status and of the join                     *)
(***************************************************************************)
\* ceil(n / 100): the least q with q * 100 >= n.
CeilBatches(n) == CHOOSE q \in 0..n : q * BatchSize >= n /\ (q = 0 \/ (q - 1) * BatchSize < n)

Finished == pc2 \in {"returned", "joined"}

\* The identifiers of the batch of log entry k.
KeysOf(k) == {ids[j] : j \in (log[k].start + 1)..Min(log[k].start + BatchSize, Len(ids))}

\* C3: a list of N identifiers takes exactly ceil(N/100) bulk calls, one per
\* batch in order whether or not earlier batches failed, and no pacing delay
\* follows the last batch.
C3_CeilBatchesNoDelayAfterLast ==
    /\ Len(log) <= CeilBatches(Len(ids))
    /\ \A k \in 1..Len(log) : log[k].start = (k - 1) * BatchSize
    /\ \A k \in 1..Len(log) : (k = CeilBatches(Len(ids))) => ~log[k].slept
    /\ Finished => Len(log) = CeilBatches(Len(ids))

\* Three batches were called, the first of which failed, the last not.
C3_Witness ==
    /\ pc2 = "returned"
    /\ Len(ids) = 2 * BatchSize + 1
    /\ Len(log) = 3
    /\ log[1].failed
    /\ log[2].slept
    /\ ~log[3].failed

\* C4 as stated: no identifier of a batch whose bulk lookup raised, at the
\* call or while its results were iterated, is a key of the returned mapping,
\* and the remaining batches are still processed.
C4_FailedBatchAbsent ==
    /\ \A k \in 1..Len(log) : log[k].failed => KeysOf(k) \cap DOMAIN status_map = {}
    /\ Finished => Len(log) = CeilBatches(Len(ids))

\* C4 amended: of a batch whose bulk lookup raised, the only identifiers that
\* are keys of the mapping are those whose results were processed before the
\* exception (none when the call itself raised) or that another batch
\* stored; the remaining batches are still processed.
C4_FailedBatchKeepsOnlyProcessed ==
    /\ \A k \in 1..Len(log) :
          log[k].failed =>
             KeysOf(k) \cap DOMAIN status_map
                \subseteq log[k].stored
                          \cup UNION {log[m].stored : m \in (1..Len(log)) \ {k}}
    /\ \A k \in 1..Len(log) : log[k].stored \subseteq KeysOf(k) \cap DOMAIN status_map
    /\ Finished => \A b \in 0..(CeilBatches(Len(ids)) - 1) :
                      \E k \in 1..Len(log) : log[k].start = b * BatchSize

\* A batch raised after one of its results was processed, and the batch
\* after it was processed to the end.
C4_Witness ==
    /\ pc2 = "returned"
    /\ Len(log) >= 2
    /\ log[1].failed
    /\ log[1].stored # {}
    /\ ~log[2].failed
    /\ log[2].stored # {}

\* C2 as stated: the joined table has one row per Pass 1 row, in order and
\* with the Pass 1 columns unchanged, and a row whose identifier has no
\* Status Record has every final-state field null.
C2_LeftOuterJoinNulls ==
    pc2 = "joined" =>
       /\ Len(final_df) = Len(df)
       /\ \A j \in 1..Len(df) :
             /\ \A c \in Pass1Columns : final_df[j][c] = df[j][c]
             /\ df[j].post_fullname \notin DOMAIN status_map =>
                   \A c \in StatusColumns :
                      c \in DOMAIN final_df[j] /\ final_df[j][c] = None

\* The case C2 fails in is the empty mapping alone.
C2_HoldsForNonEmptyMapping ==
    (pc2 = "joined" /\ status_map # <<>>) =>
       /\ Len(final_df) = Len(df)
       /\ \A j \in 1..Len(df) :
             /\ \A c \in Pass1Columns : final_df[j][c] = df[j][c]
             /\ df[j].post_fullname \notin DOMAIN status_map =>
                   \A c \in StatusColumns :
                      c \in DOMAIN final_df[j] /\ final_df[j][c] = None

(***************************************************************************)
(* The main programs of Pass 1 and Pass 2                                  *)
(***************************************************************************)
\* A Pass 1 table on disk and a manifest on disk, with the run that wrote it.
Pass1File(sub, run, table) == [sub |-> sub, run |-> run, table |-> table]
Manifest(run, cids) == [run |-> run, cohort_ids |-> cids]
Output(kind, sub, table) == [kind |-> kind, sub |-> sub, table |-> table]

\* pd.concat(frames, ignore_index=True)
RECURSIVE Concat(_)
Concat(frames) == IF frames = <<>> THEN <<>> ELSE Head(frames) \o Concat(Tail(frames))

\* One iteration of Pass 1's loop over the subreddits, on what
\* collect_initial_cohort did (raised, or returned df and names): the main
\* program's state and the Pass 1 files after it.  A file written under a
\* name that exists replaces it and is the latest by ctime all the same.
Pass1Iteration(sub, result, csv_ok, m, files) ==
    IF result.raised \/ result.df = <<>>
    THEN [m |-> [m EXCEPT !.s = @ + 1], files |-> files]
    ELSE [m |-> [m EXCEPT !.s = @ + 1,
                          !.all_initial_data = Append(@, result.df),
                          !.cohort_ids = (sub :> result.names) @@ @],
          files |-> IF csv_ok THEN Append(files, Pass1File(sub, m.run, result.df))
                    ELSE files]

\* glob.glob(f"data/pass1/{subreddit}_*.csv"), in the order of ctime.
GlobPass1(sub, files) == SelectSeq(files, LAMBDA f : f.sub = sub)

\* max(files, key=os.path.getctime)
Latest(files) == files[Len(files)]

\* The keys of the loaded manifest in the order of its items: the order in
\* which Pass 1 went through the subreddits subs.
Keys(subs, cids) == SelectSeq(subs, LAMBDA x : x \in DOMAIN cids)

\* A new run of Pass 1 starts, as long as fewer than n runs were started.
StartPass1Upto(n) ==
    /\ m1.pc \in {"idle", "done", "dead"}
    /\ m2.pc = "idle"
    /\ m1.run < n
    /\ m1' = [pc |-> "loop", run |-> m1.run + 1, s |-> 1, all_initial_data |-> <<>>,
              cohort_ids |-> <<>>]
    /\ UNCHANGED <<pass1vars, pass2vars, pass1_files, manifests, outputs, m2, picked>>

\* A slip: the outputs are written whether or not any subreddit produced data.
FinishPass1Of_AlwaysWrites(subs) ==
    /\ m1.pc = "loop"
    /\ m1.s > Len(subs)
    /\ cohort = "idle"
    /\ m1' = [m1 EXCEPT !.pc = "done"]
    /\ outputs' = Append(outputs, Output("combined_pass1", "", Concat(m1.all_initial_data)))
    /\ manifests' = Append(manifests, Manifest(m1.run, m1.cohort_ids))
    /\ UNCHANGED <<pass1vars, pass2vars, pass1_files, m2, picked>>

\* Lines 200-217 after the loop over subs: the combined table and the
\* manifest are written when some subreddit produced data; either write may
\* raise, which ends the process there.
FinishPass1Of(subs) ==
    /\ m1.pc = "loop"
    /\ m1.s > Len(subs)
    /\ cohort = "idle"
    /\ IF m1.all_initial_data = <<>>
       THEN /\ m1' = [m1 EXCEPT !.pc = "done"]
            /\ UNCHANGED <<outputs, manifests>>
       ELSE \E end \in {"ok", "combined raises", "manifest raises"} :
              /\ m1' = [m1 EXCEPT !.pc = IF end = "ok" THEN "done" ELSE "dead"]
              /\ outputs' = IF end = "combined raises" THEN outputs
                            ELSE Append(outputs, Output("combined_pass1", "",
                                                        Concat(m1.all_initial_data)))
              /\ manifests' = IF end = "ok"
                              THEN Append(manifests, Manifest(m1.run, m1.cohort_ids))
                              ELSE manifests
    /\ UNCHANGED <<pass1vars, pass2vars, pass1_files, m2, picked>>

\* Pass 2 starts: it exits when there is no manifest, and loads the latest.
StartPass2 ==
    /\ m2.pc = "idle"
    /\ m1.pc \in {"idle", "done", "dead"}
    /\ m2' = IF manifests = <<>>
             THEN [m2 EXCEPT !.pc = "done"]
             ELSE [pc |-> "loop", run |-> Latest(manifests).run, s |-> 1,
                   cohort_ids |-> Latest(manifests).cohort_ids, all_final_data |-> <<>>]
    /\ UNCHANGED <<pass1vars, pass2vars, pass1_files, manifests, outputs, m1, picked>>

\* Lines 130-149: the combined table is written when some subreddit was joined.
FinishPass2Of(subs) ==
    /\ m2.pc = "loop"
    /\ pc2 \in {"idle", "joined"}
    /\ m2.s > Len(Keys(subs, m2.cohort_ids))
    /\ m2' = [m2 EXCEPT !.pc = "done"]
    /\ outputs' = IF m2.all_final_data = <<>> THEN outputs
                  ELSE Append(outputs, Output("combined_complete", "",
                                              Concat(m2.all_final_data)))
    /\ UNCHANGED <<pass1vars, pass2vars, pass1_files, manifests, m1, picked>>

(***************************************************************************)
(* One subreddit followed post by post through both passes                 *)
(***************************************************************************)
\* The configured list of subreddits.
TrackSubs == <<"AskReddit">>

\* The posts followed: the author lookup plays no part here.
TrackPosts == {p \in Posts : p.author = NoAuthor}

T_StartPass1 == StartPass1Upto(1)

\* Line 182: collect_initial_cohort is called for the next subreddit.
T_StartCohort ==
    /\ m1.pc = "loop"
    /\ m1.s <= Len(TrackSubs)
    /\ StartCohort

T_ProcessPost ==
    /\ m1.pc = "loop"
    /\ ProcessPostFrom(TrackPosts, MaxTrack)
    /\ UNCHANGED mainvars

\* Lines 183-198 on what collect_initial_cohort did.
T_SaveCohort ==
    /\ m1.pc = "loop"
    /\ cohort \in {"returned", "aborted"}
    /\ \E csv_ok \in BOOLEAN :
         LET r == Pass1Iteration(TrackSubs[m1.s],
                                 [raised |-> cohort = "aborted", df |-> posts_data,
                                  names |-> post_fullnames],
                                 csv_ok, m1, pass1_files)
         IN  /\ m1' = r.m
             /\ pass1_files' = r.files
    /\ cohort' = "idle"
    /\ UNCHANGED <<user_info_cache, fetches, lookups, last, seen, posts_data, post_fullnames,
                   pass2vars, manifests, outputs, m2, picked>>

T_FinishPass1 == FinishPass1Of(TrackSubs)

\* A slip: a subreddit that cannot be loaded ends the loop (break for continue).
LoadSubOf_StopOnFailure(subs) ==
    /\ m2.pc = "loop"
    /\ pc2 \in {"idle", "joined"}
    /\ m2.s <= Len(Keys(subs, m2.cohort_ids))
    /\ LET sub == Keys(subs, m2.cohort_ids)[m2.s]
           names == m2.cohort_ids[sub]
           mine == GlobPass1(sub, pass1_files)
       IN  IF names = <<>> \/ mine = <<>>
           THEN /\ m2' = [m2 EXCEPT !.s = Len(Keys(subs, m2.cohort_ids)) + 1]
                /\ UNCHANGED <<pass2vars, picked>>
           ELSE \E read_ok \in BOOLEAN :
                  /\ picked' = Append(picked, [sub |-> sub, manifest_run |-> m2.run,
                                               file_run |-> Latest(mine).run])
                  /\ IF read_ok
                     THEN /\ df' = Latest(mine).table
                          /\ ids' = names
                          /\ bi' = 0
                          /\ status_map' = <<>>
                          /\ log' = <<>>
                          /\ final_df' = <<>>
                          /\ pc2' = "batch"
                          /\ UNCHANGED m2
                     ELSE /\ m2' = [m2 EXCEPT !.s = Len(Keys(subs, m2.cohort_ids)) + 1]
                          /\ UNCHANGED pass2vars
    /\ UNCHANGED <<pass1vars, pass1_files, manifests, outputs, m1>>

\* Lines 94-109 for the next subreddit of the manifest: it is skipped when
\* its list is empty, when no Pass 1 file matches, or when loading raises.
LoadSubOf(subs) ==
    /\ m2.pc = "loop"
    /\ pc2 \in {"idle", "joined"}
    /\ m2.s <= Len(Keys(subs, m2.cohort_ids))
    /\ LET sub == Keys(subs, m2.cohort_ids)[m2.s]
           names == m2.cohort_ids[sub]
           mine == GlobPass1(sub, pass1_files)
       IN  IF names = <<>> \/ mine = <<>>
           THEN /\ m2' = [m2 EXCEPT !.s = @ + 1]
                /\ UNCHANGED <<pass2vars, picked>>
           ELSE \E read_ok \in BOOLEAN :
                  /\ picked' = Append(picked, [sub |-> sub, manifest_run |-> m2.run,
                                               file_run |-> Latest(mine).run])
                  /\ IF read_ok
                     THEN /\ df' = Latest(mine).table
                          /\ ids' = names
                          /\ bi' = 0
                          /\ status_map' = <<>>
                          /\ log' = <<>>
                          /\ final_df' = <<>>
                          /\ pc2' = "batch"
                          /\ UNCHANGED m2
                     ELSE /\ m2' = [m2 EXCEPT !.s = @ + 1]
                          /\ UNCHANGED pass2vars
    /\ UNCHANGED <<pass1vars, pass1_files, manifests, outputs, m1>>

\* Lines 113-125: the join, and the complete table saved; when saving
\* raises, the joined table is not added to all_final_data.
JoinSaveOf(subs) ==
    /\ m2.pc = "loop"
    /\ JoinWith(df)
    /\ \E save_ok \in BOOLEAN :
         LET sub == Keys(subs, m2.cohort_ids)[m2.s] IN
         IF save_ok
         THEN /\ outputs' = Append(outputs, Output("complete", sub, Join(df, status_map)))
              /\ m2' = [m2 EXCEPT !.s = @ + 1,
                                  !.all_final_data = Append(@, Join(df, status_map))]
         ELSE /\ m2' = [m2 EXCEPT !.s = @ + 1]
              /\ UNCHANGED outputs
    /\ UNCHANGED <<pass1_files, manifests, m1, picked>>

T_LoadSub == LoadSubOf(TrackSubs)

T_JoinSave == JoinSaveOf(TrackSubs)

T_Recheck ==
    /\ m2.pc = "loop"
    /\ RecheckBatch

T_ReturnStatus ==
    /\ m2.pc = "loop"
    /\ ReturnStatus

T_FinishPass2 == FinishPass2Of(TrackSubs)

NextTrack ==
    \/ T_StartPass1
    \/ T_StartCohort
    \/ T_ProcessPost
    \/ ListingFails
    \/ ReturnCohort
    \/ T_SaveCohort
    \/ T_FinishPass1
    \/ StartPass2
    \/ T_LoadSub
    \/ T_Recheck
    \/ T_ReturnStatus
    \/ T_JoinSave
    \/ T_FinishPass2

SpecTrack == Init /\ [][NextTrack]_vars

(***************************************************************************)
(* Several runs of Pass 1 followed by a run of Pass 2                      *)
(***************************************************************************)
MaxRuns == 2

\* What collect_initial_cohort hands to the main program: it raised, or it
\* returned a table (empty, or of one post) and the parallel list of
\* identifiers.
CohortResults ==
    {[raised |-> TRUE, df |-> <<>>, names |-> <<>>],
     [raised |-> FALSE, df |-> <<>>, names |-> <<>>]}
    \cup {[raised |-> FALSE, df |-> t, names |-> [j \in 1..Len(t) |-> t[j].post_fullname]]
            : t \in {<<Pass1Row(k)>> : k \in Fullnames}}

P_StartPass1 == StartPass1Upto(MaxRuns)

\* Lines 180-198: one iteration of the loop over the subreddits.
SubredditOf(subs) ==
    /\ m1.pc = "loop"
    /\ m1.s <= Len(subs)
    /\ \E result \in CohortResults, csv_ok \in BOOLEAN :
         LET r == Pass1Iteration(subs[m1.s], result, csv_ok, m1, pass1_files)
         IN  /\ m1' = r.m
             /\ pass1_files' = r.files
    /\ UNCHANGED <<pass1vars, pass2vars, manifests, outputs, m2, picked>>

P_Subreddit == SubredditOf(TrackSubs)

\* The process is interrupted (KeyboardInterrupt is no Exception, a kill) at
\* any point of the run: what it wrote stays on disk.
InterruptPass1 ==
    /\ m1.pc = "loop"
    /\ m1' = [m1 EXCEPT !.pc = "dead"]
    /\ UNCHANGED <<pass1vars, pass2vars, pass1_files, manifests, outputs, m2, picked>>

P_FinishPass1 == FinishPass1Of(TrackSubs)

NextPipeline ==
    \/ P_StartPass1
    \/ P_Subreddit
    \/ InterruptPass1
    \/ P_FinishPass1
    \/ StartPass2
    \/ T_LoadSub
    \/ T_Recheck
    \/ T_ReturnStatus
    \/ T_JoinSave
    \/ T_FinishPass2

SpecPipeline == Init /\ [][NextPipeline]_vars

\* C10: the Pass 1 table that Pass 2 selects for a subreddit was written by
\* the run of Pass 1 that wrote the manifest Pass 2 loaded.
C10_SelectedTableOfManifestRun ==
    \A k \in 1..Len(picked) : picked[k].file_run = picked[k].manifest_run

(***************************************************************************)
(* The state of a post across the two passes                               *)
(***************************************************************************)
\* The state of a joined row: RESOLVED when its identifier has a Status
\* Record and the row carries it, UNRESOLVED when it has none and the row
\* has no final-state value.
RowState(row) ==
    IF row.post_fullname \in DOMAIN status_map
    THEN IF \A c \in StatusColumns :
               c \in DOMAIN row /\ row[c] = StatusCells(status_map[row.post_fullname])[c]
         THEN "RESOLVED" ELSE "NONE"
    ELSE IF \A c \in StatusColumns \cap DOMAIN row : row[c] = None
         THEN "UNRESOLVED" ELSE "NONE"

\* The row of posts_data that the j-th yielded post was recorded in.
RowIndex(j) == Cardinality({i \in 1..j : seen[i].built})

\* The state of the j-th post the listing yielded.
Phase(j) ==
    IF ~seen[j].built THEN "DROPPED"
    ELSE IF pc2 = "joined"
         THEN IF /\ RowIndex(j) \in DOMAIN final_df
                 /\ final_df[RowIndex(j)].post_fullname = seen[j].fullname
              THEN RowState(final_df[RowIndex(j)])
              ELSE "NONE"
    ELSE IF manifests # <<>> THEN "RECHECK_PENDING"
    ELSE "CAPTURED"

PhaseStep(a, b) ==
    \/ a = b
    \/ a = "CAPTURED" /\ b = "RECHECK_PENDING"
    \/ a = "RECHECK_PENDING" /\ b \in {"RESOLVED", "UNRESOLVED"}

\* The identifier list is the post_fullname of each emitted record, in order,
\* and holds no identifier of a post that was dropped.
CohortListsAgree ==
    /\ post_fullnames = BuiltNames(seen)
    /\ Len(posts_data) = Len(post_fullnames)
    /\ \A k \in 1..Len(posts_data) : posts_data[k].post_fullname = post_fullnames[k]
    /\ \A k \in 1..Len(manifests) : \A sub \in DOMAIN manifests[k].cohort_ids :
          manifests[k].cohort_ids[sub] = BuiltNames(seen)

\* C9 as stated, in the part of it that is about the end of Pass 2: once
\* Pass 2 has loaded a manifest and is over, every post that Pass 1 captured
\* is RESOLVED or UNRESOLVED.
C9_EveryCapturedPostEndsJoined ==
    (m2.pc = "done" /\ m2.cohort_ids # <<>>)
        => \A j \in 1..Len(seen) :
              seen[j].built => Phase(j) \in {"RESOLVED", "UNRESOLVED"}

\* C9 amended: a dropped post enters neither list nor manifest, the
\* identifier list is that of the emitted records in order, a post only moves
\* CAPTURED -> RECHECK_PENDING -> RESOLVED | UNRESOLVED, and it is every
\* record of the Pass 1 table that Pass 2 loads and joins that ends RESOLVED
\* or UNRESOLVED, one row each in
\* the order of the table; the posts of a subreddit that Pass 2 skips stay
\* RECHECK_PENDING.
C9_EveryJoinedRecordEndsJoined ==
    /\ [](CohortListsAgree)
    /\ [](pc2 = "joined"
            => /\ Len(final_df) = Len(df)
               /\ \A j \in 1..Len(df) :
                     /\ final_df[j].post_fullname = df[j].post_fullname
                     /\ RowState(final_df[j]) \in {"RESOLVED", "UNRESOLVED"})
    /\ []((m2.pc = "done" /\ pc2 # "joined")
            => \A j \in 1..Len(seen) :
                  Phase(j) \in {"DROPPED", "CAPTURED", "RECHECK_PENDING"})
    /\ [][\A j \in 1..Len(seen) : PhaseStep(Phase(j), Phase(j)')]_vars

\* Pass 2 is over; of three posts one was dropped, one ended RESOLVED and one
\* UNRESOLVED.
C9_Witness ==
    /\ m2.pc = "done"
    /\ Len(seen) = 3
    /\ \E a, b, c \in 1..3 :
          /\ Phase(a) = "DROPPED"
          /\ Phase(b) = "RESOLVED"
          /\ Phase(c) = "UNRESOLVED"

(***************************************************************************)
(* Pass 2 on a cohort of three posts of one subreddit                      *)
(***************************************************************************)
ScenarioSubs == <<"test">>

\* A post that a moderator removed, with no other sign of removal.
ModeratedPost(k) == [LivePost(k) EXCEPT !.removed_by_category = Some("moderator")]

ScenarioKinds == PostKinds \cup {"moderated"}
ScenarioPost(k, kind) == IF kind = "moderated" THEN ModeratedPost(k) ELSE InfoPost(k, kind)

\* What the bulk call yields: any of the posts asked for may be missing, the
\* others come in the order asked, each of any kind.
ScenarioResponses(batch) ==
    UNION {{[j \in 1..Cardinality(m) |-> ScenarioPost(batch[Nth(m, j)], kf[Nth(m, j)])]
              : kf \in [m -> ScenarioKinds]} : m \in SUBSET (1..Len(batch))}

\* The cohorts: the posts of AllFullnames in any order.
ScenarioCohorts ==
    {f \in [1..Cardinality(AllFullnames) -> AllFullnames] :
        \A i, j \in DOMAIN f : f[i] = f[j] => i = j}

\* Pass 1 has run once and written the table and the manifest of the cohort.
InitScenario ==
    /\ user_info_cache = <<>>
    /\ fetches = [u \in Usernames |-> 0]
    /\ lookups = 0
    /\ last = NoCall
    /\ cohort = "idle"
    /\ seen = <<>>
    /\ posts_data = <<>>
    /\ post_fullnames = <<>>
    /\ ids = <<>>
    /\ bi = 0
    /\ status_map = <<>>
    /\ log = <<>>
    /\ pc2 = "idle"
    /\ df = <<>>
    /\ final_df = <<>>
    /\ \E names \in ScenarioCohorts :
         /\ pass1_files = <<Pass1File(ScenarioSubs[1], 1,
                                      [j \in DOMAIN names |-> Pass1Row(names[j])])>>
         /\ manifests = <<Manifest(1, ScenarioSubs[1] :> names)>>
    /\ outputs = <<>>
    /\ m1 = [IdleMain1 EXCEPT !.pc = "done", !.run = 1]
    /\ m2 = IdleMain2
    /\ picked = <<>>

S_LoadSub == LoadSubOf(ScenarioSubs)

S_Recheck ==
    /\ m2.pc = "loop"
    /\ bi < Len(ids)
    /\ \E posts \in ScenarioResponses(BatchIds(ids, bi)) : RecheckBatchWith(posts)

S_JoinSave == JoinSaveOf(ScenarioSubs)

S_FinishPass2 == FinishPass2Of(ScenarioSubs)

NextScenario ==
    \/ StartPass2
    \/ S_LoadSub
    \/ S_Recheck
    \/ T_ReturnStatus
    \/ S_JoinSave
    \/ S_FinishPass2

SpecScenario == InitScenario /\ [][NextScenario]_vars

\* The post shows no sign of removal.
NotRemoved(post) ==
    /\ post.removed_by_category = None
    /\ post.selftext # Some("[removed]")
    /\ post.title # "[removed]"
    /\ ~(post.has_indexable /\ post.is_robot_indexable = FALSE)

\* The run of the scenario: the cohort is 1, 2, 3, the one bulk call did not
\* raise and returned post 1, not removed and of score 10, and post 3,
\* removed by a moderator and with no other sign of removal, and the
\* combined table was written.
ScenarioRun ==
    /\ m2.pc = "done"
    /\ ids = <<1, 2, 3>>
    /\ Len(log) = 1
    /\ ~log[1].failed
    /\ DOMAIN status_map = {1, 3}
    /\ \E kind \in ScenarioKinds :
          /\ NotRemoved(ScenarioPost(1, kind))
          /\ ScenarioPost(1, kind).score = 10
          /\ status_map[1] = StatusRecord(ScenarioPost(1, kind))
    /\ status_map[3] = StatusRecord(ModeratedPost(3))
    /\ outputs # <<>>
    /\ outputs[Len(outputs)].kind = "combined_complete"

\* C11: in the scenario the combined table has exactly three rows, post 1
\* resolved with is_removed_official and is_removed_inferred false, post 2
\* with every final-state field null, post 3 with both flags true.
C11_ScenarioCombinedOutput ==
    ScenarioRun =>
        LET out == outputs[Len(outputs)].table
        IN  /\ Len(out) = 3
            /\ out[1].post_fullname = 1
            /\ \A c \in StatusColumns : out[1][c] = StatusCells(status_map[1])[c]
            /\ out[1].final_score = Some(10)
            /\ out[1].is_removed_official = Some(FALSE)
            /\ out[1].is_removed_inferred = Some(FALSE)
            /\ out[2].post_fullname = 2
            /\ \A c \in StatusColumns : c \in DOMAIN out[2] /\ out[2][c] = None
            /\ out[3].post_fullname = 3
            /\ out[3].is_removed_official = Some(TRUE)
            /\ out[3].is_removed_inferred = Some(TRUE)
            /\ out[3].removed_by_category = Some("moderator")

C11_Witness == ScenarioRun

(***************************************************************************)
(* Properties of the manifest and of the combined outputs                  *)
(***************************************************************************)
\* No element occurs twice in the sequence.
NoDuplicates(seq) == \A i, j \in 1..Len(seq) : seq[i] = seq[j] => i = j

\* C12: in every manifest written by Pass 1, no post identifier occurs twice
\* in the identifier list of a subreddit.
C12_ManifestIdsUnique ==
    \A k \in 1..Len(manifests) : \A sub \in DOMAIN manifests[k].cohort_ids :
        NoDuplicates(manifests[k].cohort_ids[sub])

\* The number of outputs of the kind.
CountOutputs(kind) == Cardinality({k \in 1..Len(outputs) : outputs[k].kind = kind})

\* C13: a run of Pass 1 in which no subreddit produced data writes neither
\* the combined table nor a manifest, and a run of Pass 2 that joined no
\* subreddit writes no combined table; a run of Pass 1 writes its manifest at
\* most once, only after the loop over the subreddits and only when one of
\* them produced data, and a run that reaches its end has written it exactly
\* when one did.
C13_NoDataNoCombinedOutputs ==
    /\ [](\A k, l \in 1..Len(manifests) : manifests[k].run = manifests[l].run => k = l)
    /\ [](m1.pc = "done" =>
            ((\E k \in 1..Len(manifests) : manifests[k].run = m1.run)
                <=> m1.all_initial_data # <<>>))
    /\ [](m2.pc = "done" =>
            CountOutputs("combined_complete") = IF m2.all_final_data = <<>> THEN 0 ELSE 1)
    /\ [][/\ manifests' # manifests =>
               /\ m1.pc = "loop" /\ m1.s > Len(TrackSubs) /\ m1.all_initial_data # <<>>
               /\ m1'.pc = "done"
               /\ manifests' = Append(manifests, Manifest(m1.run, m1.cohort_ids))
          /\ (m1.pc = "loop" /\ m1.all_initial_data = <<>>) =>
               (outputs' = outputs /\ manifests' = manifests)
          /\ (m2.pc = "loop" /\ m2.all_final_data = <<>>) =>
               CountOutputs("combined_complete")' = 0]_vars

\* The first run of Pass 1 wrote a manifest, the second produced no data and
\* ended, and Pass 2 ended having joined no subreddit.
C13_Witness ==
    /\ m1.pc = "done"
    /\ m1.run = 2
    /\ m1.all_initial_data = <<>>
    /\ Len(manifests) = 1
    /\ m2.pc = "done"
    /\ m2.cohort_ids # <<>>
    /\ m2.all_final_data = <<>>

(***************************************************************************)
(* One run of Pass 1 and of Pass 2 over two configured subreddits          *)
(***************************************************************************)
TwoSubs == <<"AskReddit", "news">>

D_StartPass1 == StartPass1Upto(1)
D_Subreddit == SubredditOf(TwoSubs)
D_FinishPass1 == FinishPass1Of(TwoSubs)
D_LoadSub == LoadSubOf(TwoSubs)
D_JoinSave == JoinSaveOf(TwoSubs)
D_FinishPass2 == FinishPass2Of(TwoSubs)

NextTwoSubs ==
    \/ D_StartPass1
    \/ D_Subreddit
    \/ D_FinishPass1
    \/ StartPass2
    \/ D_LoadSub
    \/ T_Recheck
    \/ T_ReturnStatus
    \/ D_JoinSave
    \/ D_FinishPass2

SpecTwoSubs == Init /\ [][NextTwoSubs]_vars

\* The tables of the outputs of the kind, in the order they were written.
TablesOf(kind) ==
    LET sel == SelectSeq(outputs, LAMBDA o : o.kind = kind)
    IN  [k \in 1..Len(sel) |-> sel[k].table]

\* The subreddits of the loaded manifest that Pass 2 can load: a non-empty
\* identifier list and a Pass 1 file that matches.
Loadable(sub) == m2.cohort_ids[sub] # <<>> /\ GlobPass1(sub, pass1_files) # <<>>

\* C14: a subreddit that fails in Pass 2 is only skipped.  The step that
\* skips it moves to the next subreddit and leaves the tables joined so far;
\* when Pass 2 is over every subreddit of the manifest was visited, every
\* loadable one was selected, and the combined table is made of the rows of
\* every subreddit whose complete table was saved, in order.
C14_FailedSubredditOnlySkipped ==
    /\ [](m2.pc = "done" /\ m2.cohort_ids # <<>> =>
            /\ m2.s = Len(Keys(TwoSubs, m2.cohort_ids)) + 1
            /\ \A sub \in DOMAIN m2.cohort_ids :
                  Loadable(sub) => \E k \in 1..Len(picked) : picked[k].sub = sub
            /\ m2.all_final_data = TablesOf("complete")
            /\ TablesOf("complete") # <<>> =>
                  TablesOf("combined_complete") = <<Concat(TablesOf("complete"))>>)
    /\ [][(m2.pc = "loop" /\ m2'.s # m2.s) =>
            /\ m2'.s = m2.s + 1
            /\ m2'.pc = "loop"
            /\ \/ m2'.all_final_data = m2.all_final_data
               \/ m2'.all_final_data = Append(m2.all_final_data, final_df')]_vars

\* Pass 2 is over: the first subreddit of the manifest failed after it was
\* loaded, and the rows of the second are the combined table.
C14_Witness ==
    /\ m2.pc = "done"
    /\ DOMAIN m2.cohort_ids = {"AskReddit", "news"}
    /\ Len(picked) = 2
    /\ Len(outputs) >= 2
    /\ outputs[Len(outputs)].kind = "combined_complete"
    /\ outputs[Len(outputs) - 1] = Output("complete", "news", outputs[Len(outputs)].table)
    /\ TablesOf("complete") = <<outputs[Len(outputs)].table>>

(***************************************************************************)
(* The Status Record of one post                                           *)
(***************************************************************************)
\* The posts the bulk call may yield, in the attributes the record reads.
InfoPosts ==
    {[LivePost(1) EXCEPT !.removed_by_category = rc, !.selftext = body, !.title = title,
                         !.author = author, !.has_indexable = has,
                         !.is_robot_indexable = flag]
       : rc \in {None, Some("moderator")},
         body \in {None, Some("text"), Some("[removed]"), Some("[deleted]")},
         title \in {"title", "[removed]"},
         author \in {None, Some("alice"), Some(DeletedName)},
         has \in BOOLEAN, flag \in BOOLEAN}

InitStatus ==
    /\ user_info_cache = <<>>
    /\ fetches = [u \in Usernames |-> 0]
    /\ lookups = 0
    /\ last \in {[post |-> p, record |-> None] : p \in InfoPosts}
    /\ cohort = "idle"
    /\ seen = <<>>
    /\ posts_data = <<>>
    /\ post_fullnames = <<>>
    /\ ids = <<1>>
    /\ bi = 0
    /\ status_map = <<>>
    /\ log = <<>>
    /\ pc2 = "batch"
    /\ df = <<>>
    /\ final_df = <<>>
    /\ pass1_files = <<>>
    /\ manifests = <<>>
    /\ outputs = <<>>
    /\ m1 = IdleMain1
    /\ m2 = IdleMain2
    /\ picked = <<>>

\* Lines 34-62 for the post: its record is computed and stored.
StorePost ==
    /\ last.record = None
    /\ last' = [last EXCEPT !.record = Some(StatusRecord(last.post))]
    /\ status_map' = StoreResults(status_map, <<last.post>>, 1)
    /\ UNCHANGED <<user_info_cache, fetches, lookups, cohort, seen, posts_data,
                   post_fullnames, ids, bi, log, pc2, df, final_df, mainvars>>

NextStatus == StorePost

SpecStatus == InitStatus /\ [][NextStatus]_vars

\* C15: in every Status Record, is_removed_inferred is true whenever
\* is_removed_official is.
C15_OfficialImpliesInferred ==
    \A k \in DOMAIN status_map :
        status_map[k].is_removed_official => status_map[k].is_removed_inferred

\* A record was stored for a post that a moderator removed and that shows no
\* other sign of removal.
C15_Witness ==
    /\ last.record # None
    /\ last.post.removed_by_category # None
    /\ last.post.selftext = Some("text")
    /\ last.post.title = "title"
    /\ ~last.post.has_indexable
    /\ status_map[1].is_removed_official

\* C19: is_removed_inferred is the disjunction of is_removed_official,
\* is_removed_content and "the post exposes is_robot_indexable and it is
\* false"; a post that does not expose the flag adds nothing.
C19_InferredIsDisjunction ==
    last.record # None =>
        LET rec == status_map[last.post.fullname]
            official == last.post.removed_by_category # None
            content == last.post.selftext = Some("[removed]") \/ last.post.title = "[removed]"
        IN  /\ rec = last.record[1]
            /\ rec.is_removed_official = official
            /\ rec.is_removed_content = content
            /\ rec.is_removed_inferred =
                  (\/ rec.is_removed_official
                   \/ rec.is_removed_content
                   \/ (last.post.has_indexable /\ ~last.post.is_robot_indexable))
            /\ ~last.post.has_indexable =>
                  rec.is_removed_inferred = (official \/ content)

\* A record was stored for a post that does not expose the flag and shows no
\* removal, and one for a post whose only sign of removal is the flag.
C19_Witness ==
    /\ last.record # None
    /\ last.post.removed_by_category = None
    /\ last.post.selftext = Some("text")
    /\ last.post.title = "title"
    /\ \/ ~last.post.has_indexable /\ ~last.post.is_robot_indexable
          /\ ~status_map[1].is_removed_inferred
       \/ last.post.has_indexable /\ ~last.post.is_robot_indexable
          /\ status_map[1].is_removed_inferred

(***************************************************************************)
(* collect_post_data on one post                                           *)
(***************************************************************************)
\* post.created_utc is the platform's clock and datetime.now the local one:
\* the post was created long before the capture, at its very second, or,
\* the local clock being behind, one second after it.
CaptureCreatedTimes == {SecondsPerDay} \cup NowTimes \cup {t + 1 : t \in NowTimes}

CapturePosts == [fullname : {1}, author : Authors, created_utc : CaptureCreatedTimes,
                 broken : BOOLEAN]

InitCapture ==
    /\ user_info_cache = <<>>
    /\ fetches = [u \in Usernames |-> 0]
    /\ lookups = 0
    /\ last \in {[post |-> p, profile |-> pr, captured |-> t, called |-> FALSE]
                    : p \in CapturePosts, pr \in Profiles, t \in NowTimes}
    /\ cohort = "collecting"
    /\ seen = <<>>
    /\ posts_data = <<>>
    /\ post_fullnames = <<>>
    /\ ids = <<>>
    /\ bi = 0
    /\ status_map = <<>>
    /\ log = <<>>
    /\ pc2 = "idle"
    /\ df = <<>>
    /\ final_df = <<>>
    /\ pass1_files = <<>>
    /\ manifests = <<>>
    /\ outputs = <<>>
    /\ m1 = IdleMain1
    /\ m2 = IdleMain2
    /\ picked = <<>>

\* collect_post_data(post), and lines 153-155 on what it returned.
RecordPost ==
    /\ ~last.called
    /\ LET d == collect_post_data(last.post, last.profile, last.captured, last.captured,
                                  user_info_cache)
           step == LoopStep(d, posts_data, post_fullnames)
       IN  /\ user_info_cache' = d.call.cache
           /\ fetches' = CountFetch(last.post.author, d.call)
           /\ posts_data' = step.posts_data
           /\ post_fullnames' = step.post_fullnames
           /\ cohort' = step.cohort
           /\ seen' = Append(seen, [fullname |-> last.post.fullname, built |-> d.data # None])
    /\ last' = [last EXCEPT !.called = TRUE]
    /\ UNCHANGED <<lookups, pass2vars, mainvars>>

NextCapture == RecordPost

SpecCapture == InitCapture /\ [][NextCapture]_vars

\* C16 as stated: the age of every recorded post is its capture time minus
\* its creation time, and is not negative.
C16_AgeIsDifferenceNonNegative ==
    \A k \in 1..Len(posts_data) :
        /\ posts_data[k].post_age_seconds_at_capture
              = posts_data[k].captured_at_utc - posts_data[k].created_utc
        /\ posts_data[k].post_age_seconds_at_capture >= 0

\* C16 amended: the age of every recorded post is its capture time minus its
\* creation time, the times being those of the call; it is negative exactly
\* when the post's creation time is later than the local capture time.
C16_AgeIsDifference ==
    \A k \in 1..Len(posts_data) :
        /\ posts_data[k].captured_at_utc = last.captured
        /\ posts_data[k].created_utc = last.post.created_utc
        /\ posts_data[k].post_age_seconds_at_capture
              = last.captured - last.post.created_utc
        /\ posts_data[k].post_age_seconds_at_capture < 0
              <=> last.post.created_utc > last.captured

\* A post was recorded whose creation time is later than its capture time.
C16_Witness ==
    /\ last.called
    /\ Len(posts_data) = 1
    /\ last.post.created_utc > last.captured
    /\ posts_data[1].post_age_seconds_at_capture = 0 - 1

(***************************************************************************)
(* Pacing delays                                                           *)
(***************************************************************************)
\* C17: between every two consecutive bulk calls of get_final_post_status
\* there is a pacing delay, also when the earlier of the two batches failed.
C17_DelayBetweenConsecutiveCalls ==
    \A k \in 1..Len(log) : k < Len(log) => log[k].slept


\* C18: collect_user_info runs its pacing delay only in a call that fetched
\* the profile: a call the cache answered, a call with no author and a call
\* for "[deleted]" return without delay.
C18_DelayOnlyOnFreshFetch ==
    /\ last.slept => (last.fetched /\ ~last.hit)
    /\ last.hit => ~last.slept
    /\ (last.author.isNone \/ last.author.name = DeletedName) =>
          (~last.slept /\ ~last.fetched)

\* The profile of a user was fetched once, with the delay, and the last call
\* for that user was answered by the cache.
C18_Witness ==
    /\ last.hit
    /\ ~last.slept
    /\ ~last.ret.author_unavailable
    /\ fetches[last.author.name] = 1

\* C20: the snapshot collect_user_info returns for a username other than
\* "[deleted]", and the one the cache holds under that username, has the
\* username as its username field.
C20_SnapshotUsernameIsCacheKey ==
    /\ \A u \in DOMAIN user_info_cache : user_info_cache[u].username = u
    /\ (~last.author.isNone /\ last.author.name # DeletedName) =>
          last.ret.username = last.author.name


\* C21: for every subreddit of a manifest, the run of Pass 1 that wrote the
\* manifest also wrote the Pass 1 table of the subreddit, and the identifier
\* list of the subreddit is not empty.
C21_ManifestKeyHasPass1File ==
    \A k \in 1..Len(manifests) : \A sub \in DOMAIN manifests[k].cohort_ids :
        /\ manifests[k].cohort_ids[sub] # <<>>
        /\ \E f \in 1..Len(pass1_files) :
              /\ pass1_files[f].sub = sub
              /\ pass1_files[f].run = manifests[k].run

====
